---- MODULE Spec2Model ----
(***************************************************************************)
(* Model of src/app/app.py: a Flask application with one route, "/",       *)
(* whose view function get_time_and_ip returns the current time in the     *)
(* Asia/Kolkata zone and the visitor's address as JSON.                    *)
(*                                                                         *)
(* Text (header values, addresses, the formatted time) is a sequence of    *)
(* one-character strings, so that formatting and parsing are computations  *)
(* on characters.  An instant of the system clock is a record              *)
(* [day, sec]: whole days since 1970-01-01 UTC and the second of that day. *)
(***************************************************************************)
EXTENDS Integers, Sequences, FiniteSets, TLC

VARIABLES clock, conns, lastStamp

vars == <<clock, conns, lastStamp>>

(***************************************************************************)
(* Bounds of the model.                                                    *)
(***************************************************************************)
\* Connections the server holds at once.
MaxConn == 2
\* Seconds taken on each side of an anchor time of day (ClockTimes).
SecWindow == 1

Conns == 1 .. MaxConn

(***************************************************************************)
(* Python and JSON values.                                                 *)
(***************************************************************************)
PyNone == [type |-> "NoneType", s |-> <<>>]
PyStr(s) == [type |-> "str", s |-> s]

JsonNull == [json |-> "null", s |-> <<>>]
JsonString(s) == [json |-> "string", s |-> s]

\* flask.json's encoding of the values the view returns: str -> string,
\* None -> null.
ToJson(v) == IF v.type = "str" THEN JsonString(v.s) ELSE JsonNull

\* jsonify(dict): the JSON object with the dict's keys, each value encoded.
Jsonify(d) == { <<p[1], ToJson(p[2])>> : p \in d }

(***************************************************************************)
(* CPython's datetime arithmetic (proleptic Gregorian ordinals), as used   *)
(* by datetime.now(tz) and by pytz's fromutc.                              *)
(***************************************************************************)
DI400Y == 146097
DI100Y == 36524
DI4Y == 1461
EpochOrdinal == 719163
SecondsPerDay == 86400

DAYS_IN_MONTH == <<31, 28, 31, 30, 31, 30, 31, 31, 30, 31, 30, 31>>
DAYS_BEFORE_MONTH == <<0, 31, 59, 90, 120, 151, 181, 212, 243, 273, 304, 334>>

is_leap(year) == year % 4 = 0 /\ (year % 100 # 0 \/ year % 400 = 0)

days_before_year(year) ==
    LET y == year - 1
    IN  y * 365 + (y \div 4) - (y \div 100) + (y \div 400)

days_before_month(year, month) ==
    DAYS_BEFORE_MONTH[month] + (IF month > 2 /\ is_leap(year) THEN 1 ELSE 0)

ymd2ord(year, month, day) ==
    days_before_year(year) + days_before_month(year, month) + day

ord2ymd(ordinal) ==
    LET n0 == ordinal - 1
        n400 == n0 \div DI400Y
        r400 == n0 % DI400Y
        n100 == r400 \div DI100Y
        r100 == r400 % DI100Y
        n4 == r100 \div DI4Y
        r4 == r100 % DI4Y
        n1 == r4 \div 365
        n == r4 % 365
        year == n400 * 400 + 1 + n100 * 100 + n4 * 4 + n1
        leapyear == n1 = 3 /\ (n4 # 24 \/ n100 = 3)
        m0 == (n + 50) \div 32
        p0 == DAYS_BEFORE_MONTH[m0] + (IF m0 > 2 /\ leapyear THEN 1 ELSE 0)
        month == IF p0 > n THEN m0 - 1 ELSE m0
        preceding == IF p0 > n
                     THEN p0 - (DAYS_IN_MONTH[month]
                                + (IF month = 2 /\ leapyear THEN 1 ELSE 0))
                     ELSE p0
    IN  IF n1 = 4 \/ n100 = 4
        THEN [year |-> year - 1, month |-> 12, day |-> 31]
        ELSE [year |-> year, month |-> month, day |-> n - preceding + 1]

\* datetime.utcfromtimestamp: the UTC calendar fields of an instant.
UtcFromTimestamp(t) ==
    LET ymd == ord2ymd(EpochOrdinal + t.day)
    IN  [year |-> ymd.year, month |-> ymd.month, day |-> ymd.day,
         hour |-> t.sec \div 3600, minute |-> (t.sec % 3600) \div 60,
         second |-> t.sec % 60]

\* Mutant: the seconds past midnight are not carried into the date.
DatetimeAddNoDayCarry(dt, delta) ==
    LET total == dt.hour * 3600 + dt.minute * 60 + dt.second + delta
        secs == total % SecondsPerDay
    IN  [year |-> dt.year, month |-> dt.month, day |-> dt.day,
         hour |-> secs \div 3600, minute |-> (secs % 3600) \div 60,
         second |-> secs % 60]

\* datetime.__add__(timedelta(seconds = delta)).
DatetimeAdd(dt, delta) ==
    LET total == dt.hour * 3600 + dt.minute * 60 + dt.second + delta
        days == ymd2ord(dt.year, dt.month, dt.day) + (total \div SecondsPerDay)
        secs == total % SecondsPerDay
        ymd == ord2ymd(days)
    IN  [year |-> ymd.year, month |-> ymd.month, day |-> ymd.day,
         hour |-> secs \div 3600, minute |-> (secs % 3600) \div 60,
         second |-> secs % 60]

\* The UTC offset of Asia/Kolkata in seconds (+05:30), in force since 1945.
KolkataUtcOffset == 19800

\* pytz: tz.fromutc(dt) == dt + utcoffset.
FromUtc(dt) == DatetimeAdd(dt, KolkataUtcOffset)

\* datetime.now(ist) at the instant t of the system clock.
DatetimeNow(t) == FromUtc(UtcFromTimestamp(t))

(***************************************************************************)
(* strftime("%d-%b-%Y %I:%M:%S %p IST") in the C locale.                   *)
(***************************************************************************)
Digit(n) == <<"0", "1", "2", "3", "4", "5", "6", "7", "8", "9">>[n + 1]

RECURSIVE Decimal(_)
Decimal(n) == IF n < 10 THEN <<Digit(n)>>
              ELSE Append(Decimal(n \div 10), Digit(n % 10))

\* %d, %I, %M, %S: two digits, zero padded.
Pad2(n) == <<Digit((n \div 10) % 10), Digit(n % 10)>>

\* %b
MonthAbbr(month) ==
    << <<"J", "a", "n">>, <<"F", "e", "b">>, <<"M", "a", "r">>,
       <<"A", "p", "r">>, <<"M", "a", "y">>, <<"J", "u", "n">>,
       <<"J", "u", "l">>, <<"A", "u", "g">>, <<"S", "e", "p">>,
       <<"O", "c", "t">>, <<"N", "o", "v">>, <<"D", "e", "c">> >>[month]

\* Mutant: the hour modulo 12, so that midnight and noon read 00.
Hour12Modulo(hour) == hour % 12

\* %I: the hour on a 12-hour clock, 01..12.
Hour12(hour) == IF hour % 12 = 0 THEN 12 ELSE hour % 12

\* Mutant: the marker does not follow the hour.
AmPmAlwaysAm(hour) == <<"A", "M">>

\* %p
AmPm(hour) == IF hour < 12 THEN <<"A", "M">> ELSE <<"P", "M">>

Strftime(dt) ==
    Pad2(dt.day) \o <<"-">> \o MonthAbbr(dt.month) \o <<"-">>
    \o Decimal(dt.year) \o <<" ">>
    \o Pad2(Hour12(dt.hour)) \o <<":">> \o Pad2(dt.minute) \o <<":">>
    \o Pad2(dt.second) \o <<" ">> \o AmPm(dt.hour)
    \o <<" ", "I", "S", "T">>

(***************************************************************************)
(* Requests.                                                               *)
(***************************************************************************)
XForwardedFor == "X-Forwarded-For"

\* Mutant: the lookup misses the header and always takes the default.
HeadersGetMissesHeader(headers, key, default) == default

\* Mutant: headers.get(key) without the default.
HeadersGetNoDefault(headers, key, default) ==
    IF \E h \in headers : h[1] = key
    THEN PyStr((CHOOSE h \in headers : h[1] = key)[2])
    ELSE PyNone

\* werkzeug Headers.get(key, default): the header's value when the header
\* is in the request, whatever the value; the default otherwise.
HeadersGet(headers, key, default) ==
    IF \E h \in headers : h[1] = key
    THEN PyStr((CHOOSE h \in headers : h[1] = key)[2])
    ELSE default

NoRequest == [method |-> "", path |-> "", headers |-> {}, remote_addr |-> PyNone]
NoDatetime == [year |-> 0, month |-> 0, day |-> 0,
               hour |-> 0, minute |-> 0, second |-> 0]
NoInstant == [day |-> -1, sec |-> 0]
NoResponse == [status |-> 0, mimetype |-> "", body |-> {}, by |-> ""]

IdleConn == [pc |-> "idle", req |-> NoRequest, t |-> NoInstant,
             now_ist |-> NoDatetime, formatted_time |-> <<>>,
             visitor_ip |-> PyNone, resp |-> NoResponse]

(***************************************************************************)
(* Routing: @app.route("/", methods=["GET"]).                              *)
(***************************************************************************)
\* Mutant: the rule allows the methods as written and no others.
RuleMethodsAsWritten(methods) == methods

\* Flask adds HEAD to a rule that allows GET, and OPTIONS to every rule
\* (provide_automatic_options).
RuleMethods(methods) ==
    methods \cup (IF "GET" \in methods THEN {"HEAD"} ELSE {}) \cup {"OPTIONS"}

url_map == { [rule |-> "/", methods |-> RuleMethods({"GET"}),
              endpoint |-> "get_time_and_ip"] }

\* werkzeug MapAdapter.match: the endpoint, or NotFound / MethodNotAllowed.
Match(path, method) ==
    IF \E r \in url_map : r.rule = path /\ method \in r.methods
    THEN (CHOOSE r \in url_map : r.rule = path /\ method \in r.methods).endpoint
    ELSE IF \E r \in url_map : r.rule = path
         THEN "MethodNotAllowed"
         ELSE "NotFound"

ErrorResponse(status) ==
    [status |-> status, mimetype |-> "text/html", body |-> {}, by |-> "framework"]

\* Flask.make_default_options_response
OptionsResponse ==
    [status |-> 200, mimetype |-> "text/html", body |-> {}, by |-> "framework"]

\* The response to a request the view function answered; a HEAD response
\* is sent without its body.
ViewResponse(method, payload) ==
    [status |-> 200, mimetype |-> "application/json",
     body |-> IF method = "HEAD" THEN {} ELSE Jsonify(payload),
     by |-> "get_time_and_ip"]

(***************************************************************************)
(* The system clock.                                                       *)
(***************************************************************************)
Before(a, b) == a.day < b.day \/ (a.day = b.day /\ a.sec < b.sec)

\* Time passes: the clock moves to a later instant.
Tick(instants) ==
    /\ \E t \in instants : Before(clock, t) /\ clock' = t
    /\ UNCHANGED <<conns, lastStamp>>

(***************************************************************************)
(* One connection's request, step by step.                                 *)
(***************************************************************************)
\* flask.request inside connection c's request context.
CurrentRequest(cs, c) == cs[c].req

\* Mutant: one request object for the whole process, not one per context.
PushContextGlobal(cs, c, req) ==
    [k \in DOMAIN cs |->
        IF k = c THEN [IdleConn EXCEPT !.pc = "dispatch", !.req = req]
        ELSE [cs[k] EXCEPT !.req = req]]

\* The request context opened for connection c.
PushContext(cs, c, req) == [cs EXCEPT ![c] = [IdleConn EXCEPT !.pc = "dispatch", !.req = req]]

Accept(c, requests) ==
    /\ conns[c].pc = "idle"
    /\ \E req \in requests : conns' = PushContext(conns, c, req)
    /\ UNCHANGED <<clock, lastStamp>>

\* Flask.dispatch_request
Dispatch(c) ==
    /\ conns[c].pc = "dispatch"
    /\ LET req == CurrentRequest(conns, c)
           m == Match(req.path, req.method)
       IN  conns' = [conns EXCEPT ![c] =
             IF m = "NotFound"
             THEN [@ EXCEPT !.pc = "done", !.resp = ErrorResponse(404)]
             ELSE IF m = "MethodNotAllowed"
             THEN [@ EXCEPT !.pc = "done", !.resp = ErrorResponse(405)]
             ELSE IF req.method = "OPTIONS"
             THEN [@ EXCEPT !.pc = "done", !.resp = OptionsResponse]
             ELSE [@ EXCEPT !.pc = "now"]]
    /\ UNCHANGED <<clock, lastStamp>>

\* now_ist = datetime.now(ist)
ReadClock(c) ==
    /\ conns[c].pc = "now"
    /\ conns' = [conns EXCEPT ![c] =
                   [@ EXCEPT !.pc = "format", !.t = clock,
                             !.now_ist = DatetimeNow(clock)]]
    /\ UNCHANGED <<clock, lastStamp>>

\* formatted_time = now_ist.strftime(...)
FormatTime(c) ==
    /\ conns[c].pc = "format"
    /\ conns' = [conns EXCEPT ![c] =
                   [@ EXCEPT !.pc = "ip",
                             !.formatted_time = Strftime(conns[c].now_ist)]]
    /\ UNCHANGED <<clock, lastStamp>>

\* visitor_ip = request.headers.get('X-Forwarded-For', request.remote_addr)
GetIp(c) ==
    /\ conns[c].pc = "ip"
    /\ LET req == CurrentRequest(conns, c)
       IN  conns' = [conns EXCEPT ![c] =
                       [@ EXCEPT !.pc = "return",
                                 !.visitor_ip = HeadersGet(req.headers, XForwardedFor,
                                                           req.remote_addr)]]
    /\ UNCHANGED <<clock, lastStamp>>

\* return jsonify({"timestamp": formatted_time, "ip": visitor_ip})
Return(c) ==
    /\ conns[c].pc = "return"
    /\ LET req == CurrentRequest(conns, c)
           payload == { <<"timestamp", PyStr(conns[c].formatted_time)>>,
                        <<"ip", conns[c].visitor_ip>> }
       IN  conns' = [conns EXCEPT ![c] =
                       [@ EXCEPT !.pc = "done",
                                 !.resp = ViewResponse(req.method, payload)]]
    /\ UNCHANGED <<clock, lastStamp>>

\* The response is delivered and the connection closed.  lastStamp keeps
\* the timestamp the clients saw last, with the instant it was made at.
Close(c) ==
    /\ conns[c].pc = "done"
    /\ conns' = [conns EXCEPT ![c] = IdleConn]
    /\ lastStamp' = IF conns[c].resp.by = "get_time_and_ip"
                    THEN [t |-> conns[c].t, timestamp |-> conns[c].formatted_time]
                    ELSE lastStamp
    /\ UNCHANGED clock

Serve(c) ==
    \/ Dispatch(c)
    \/ ReadClock(c)
    \/ FormatTime(c)
    \/ GetIp(c)
    \/ Return(c)
    \/ Close(c)

AllIdle == \A c \in Conns : conns[c].pc = "idle"

(***************************************************************************)
(* The requests and clock readings the specifications draw from.           *)
(***************************************************************************)
Addr1234 == <<"1", ".", "2", ".", "3", ".", "4">>
Addr203 == <<"2", "0", "3", ".", "0", ".", "1", "1", "3", ".", "9">>
Addr10 == <<"1", "0", ".", "0", ".", "0", ".", "1">>
Loopback == <<"1", "2", "7", ".", "0", ".", "0", ".", "1">>
Peer198 == <<"1", "9", "8", ".", "5", "1", ".", "1", "0", "0", ".", "7">>
\* A proxy chain: "203.0.113.9, 10.0.0.1".
Chain == Addr203 \o <<",", " ">> \o Addr10

Methods == {"GET", "HEAD", "OPTIONS", "POST", "PUT", "DELETE"}
Paths == {"/", "/time"}
XffValues == {<<>>, Addr1234, Addr203, Chain}
HeaderSets == {{}} \cup { {<<XForwardedFor, v>>} : v \in XffValues }
\* REMOTE_ADDR of the WSGI environment; None when the server sets none.
Peers == {PyNone, PyStr(Loopback), PyStr(Peer198)}

Requests ==
    [method : Methods, path : Paths, headers : HeaderSets, remote_addr : Peers]

Instant(day, sec) == [day |-> day, sec |-> sec]

\* 2024-01-05T10:15:30Z, one second later, and 2023-12-31T18:30:00Z.
BaseInstants == {Instant(19722, 66600), Instant(19727, 36930), Instant(19727, 36931)}

\* UTC days (since 1970-01-01) around month ends, leap days and year ends.
ClockDays == {0, 58, 11015, 11016, 19416, 19722, 19726, 19727, 19781, 19782, 47540}
\* Times of day around 00:00, 12:00 and 00:10/12:10, 03:45:30/15:45:30 IST.
AnchorTimes == {0, 23400, 24000, 36930, 66600, 67200, 80130, 86399}
ClockTimes ==
    { s \in UNION { (a - SecWindow) .. (a + SecWindow) : a \in AnchorTimes } :
        s >= 0 /\ s < SecondsPerDay }
ClockInstants == { Instant(d, s) : d \in ClockDays, s \in ClockTimes }

\* The request of the scenario: X-Forwarded-For: 203.0.113.9, from 127.0.0.1.
ScenarioRequests ==
    { [method |-> "GET", path |-> "/", headers |-> {<<XForwardedFor, Addr203>>},
       remote_addr |-> PyStr(Loopback)] }

ThreadRequests ==
    [method : {"GET"}, path : {"/"},
     headers : {{}, {<<XForwardedFor, Addr1234>>}},
     remote_addr : {PyStr(Loopback), PyStr(Peer198)}]
ThreadInstants == {Instant(19727, 36930), Instant(19727, 36931)}

(***************************************************************************)
(* Specifications.                                                         *)
(***************************************************************************)
NoStamp == [t |-> NoInstant, timestamp |-> <<>>]

InitWith(instants) ==
    /\ clock \in instants
    /\ conns = [c \in Conns |-> IdleConn]
    /\ lastStamp = NoStamp

\* One request at a time, of every shape.
Init == InitWith(BaseInstants)

Next ==
    \/ Tick(BaseInstants)
    \/ \E c \in Conns : AllIdle /\ Accept(c, Requests)
    \/ \E c \in Conns : Serve(c)

Spec == Init /\ [][Next]_vars

\* One client asking for the time again and again, over many instants.
InitClock == InitWith(ClockInstants)

NextClock ==
    \/ AllIdle /\ Tick(ClockInstants)
    \/ AllIdle /\ Accept(1, ScenarioRequests)
    \/ Serve(1)

SpecClock == InitClock /\ [][NextClock]_vars

\* The threaded server: the requests of all connections interleave.
InitThreads == InitWith(ThreadInstants)

NextThreads ==
    \/ Tick(ThreadInstants)
    \/ \E c \in Conns : Accept(c, ThreadRequests)
    \/ \E c \in Conns : Serve(c)

SpecThreads == InitThreads /\ [][NextThreads]_vars

(***************************************************************************)
(* What the properties read from a connection's state.                     *)
(***************************************************************************)
\* The connection's request was answered by the view function.
Answered(c) == conns[c].pc = "done" /\ conns[c].resp.by = "get_time_and_ip"

\* ... and was a GET, so that the response carries its JSON body.
GetAnswered(c) == Answered(c) /\ conns[c].req.method = "GET"

HasXff(req) == \E h \in req.headers : h[1] = XForwardedFor
XffOf(req) == (CHOOSE h \in req.headers : h[1] = XForwardedFor)[2]

\* The values a JSON object holds under a key.
Field(body, key) == { p[2] : p \in { q \in body : q[1] = key } }
Keys(body) == { p[1] : p \in body }

\* A header value that is one address: not empty, no list separator.
SingleValue(v) == v # <<>> /\ \A i \in 1 .. Len(v) : v[i] # ","

\* The first element of a comma-separated header value, without the
\* blanks around it.
RECURSIVE Trim(_)
Trim(v) == IF v = <<>> THEN v
           ELSE IF Head(v) = " " THEN Trim(Tail(v))
           ELSE IF v[Len(v)] = " " THEN Trim(SubSeq(v, 1, Len(v) - 1))
           ELSE v
FirstValue(v) ==
    LET commas == { i \in 1 .. Len(v) : v[i] = "," }
    IN  IF commas = {} THEN Trim(v)
        ELSE Trim(SubSeq(v, 1, (CHOOSE i \in commas : \A j \in commas : i <= j) - 1))

\* The peer address as the JSON response would carry it.
PeerJson(req) == JsonString(req.remote_addr.s)

(***************************************************************************)
(* C1: a GET / request whose X-Forwarded-For header holds one address v    *)
(* is answered with ip = v, whatever the peer address of the connection.   *)
(***************************************************************************)
C1_IpIsForwardedFor ==
    \A c \in Conns :
        (GetAnswered(c) /\ HasXff(conns[c].req) /\ SingleValue(XffOf(conns[c].req)))
        => Field(conns[c].resp.body, "ip") = {JsonString(XffOf(conns[c].req))}

C1_Witness ==
    \E c \in Conns :
        /\ GetAnswered(c)
        /\ conns[c].req.headers = {<<XForwardedFor, Addr1234>>}
        /\ conns[c].req.remote_addr = PyStr(Peer198)
        /\ Field(conns[c].resp.body, "ip") = {JsonString(Addr1234)}

(***************************************************************************)
(* C2: a GET / request without an X-Forwarded-For header, on a connection  *)
(* with a peer address, is answered with ip = that peer address.           *)
(***************************************************************************)
C2_IpIsPeerAddress ==
    \A c \in Conns :
        (GetAnswered(c) /\ ~HasXff(conns[c].req)
            /\ conns[c].req.remote_addr.type = "str")
        => Field(conns[c].resp.body, "ip") = {PeerJson(conns[c].req)}

C2_Witness ==
    \E c \in Conns :
        /\ GetAnswered(c)
        /\ conns[c].req.headers = {}
        /\ conns[c].req.remote_addr = PyStr(Loopback)
        /\ Field(conns[c].resp.body, "ip") = {JsonString(Loopback)}

(***************************************************************************)
(* C3: a GET / request whose X-Forwarded-For header is present with the    *)
(* empty string as value is answered with ip = the peer address, not with  *)
(* the empty string.                                                       *)
(***************************************************************************)
C3_EmptyHeaderFallsBack ==
    \A c \in Conns :
        (GetAnswered(c) /\ HasXff(conns[c].req) /\ XffOf(conns[c].req) = <<>>
            /\ conns[c].req.remote_addr.type = "str")
        => /\ Field(conns[c].resp.body, "ip") = {PeerJson(conns[c].req)}
           /\ JsonString(<<>>) \notin Field(conns[c].resp.body, "ip")

(***************************************************************************)
(* C4: a GET / request whose X-Forwarded-For header holds several values   *)
(* (a comma-separated chain) is answered with ip = the first value only.   *)
(***************************************************************************)
C4_FirstValueOnly ==
    \A c \in Conns :
        (GetAnswered(c) /\ HasXff(conns[c].req)
            /\ ~SingleValue(XffOf(conns[c].req)) /\ XffOf(conns[c].req) # <<>>)
        => Field(conns[c].resp.body, "ip")
             = {JsonString(FirstValue(XffOf(conns[c].req)))}

C10_AlwaysTwoStrings ==
    \A c \in Conns :
        GetAnswered(c)
        => /\ Keys(conns[c].resp.body) = {"timestamp", "ip"}
           /\ \A p \in conns[c].resp.body : p[2].json = "string"

(***************************************************************************)
(* The calendar as the properties state it: the civil date of each UTC     *)
(* day the clock takes, the length of a month, the day after a date, and   *)
(* the reading of a timestamp's characters.                                *)
(***************************************************************************)
CivilDate(day) ==
    CASE day = 0     -> [year |-> 1970, month |-> 1,  day |-> 1]
      [] day = 58    -> [year |-> 1970, month |-> 2,  day |-> 28]
      [] day = 11015 -> [year |-> 2000, month |-> 2,  day |-> 28]
      [] day = 11016 -> [year |-> 2000, month |-> 2,  day |-> 29]
      [] day = 19416 -> [year |-> 2023, month |-> 2,  day |-> 28]
      [] day = 19722 -> [year |-> 2023, month |-> 12, day |-> 31]
      [] day = 19726 -> [year |-> 2024, month |-> 1,  day |-> 4]
      [] day = 19727 -> [year |-> 2024, month |-> 1,  day |-> 5]
      [] day = 19781 -> [year |-> 2024, month |-> 2,  day |-> 28]
      [] day = 19782 -> [year |-> 2024, month |-> 2,  day |-> 29]
      [] day = 47540 -> [year |-> 2100, month |-> 2,  day |-> 28]

MonthLength(year, month) ==
    IF month \in {4, 6, 9, 11} THEN 30
    ELSE IF month # 2 THEN 31
    ELSE IF year % 400 = 0 THEN 29
    ELSE IF year % 100 = 0 THEN 28
    ELSE IF year % 4 = 0 THEN 29
    ELSE 28

DayAfter(date) ==
    IF date.day < MonthLength(date.year, date.month)
    THEN [date EXCEPT !.day = @ + 1]
    ELSE IF date.month < 12
    THEN [year |-> date.year, month |-> date.month + 1, day |-> 1]
    ELSE [year |-> date.year + 1, month |-> 1, day |-> 1]

\* The instant t, as a UTC date and time, moved on by 5 hours 30 minutes.
PlusFiveThirty(t) ==
    LET utcHour == t.sec \div 3600
        utcMinute == (t.sec \div 60) % 60
        minute == (utcMinute + 30) % 60
        hours == utcHour + 5 + ((utcMinute + 30) \div 60)
        date == IF hours >= 24 THEN DayAfter(CivilDate(t.day)) ELSE CivilDate(t.day)
    IN  [year |-> date.year, month |-> date.month, day |-> date.day,
         hour |-> hours % 24, minute |-> minute, second |-> t.sec % 60]

DigitChars == <<"0", "1", "2", "3", "4", "5", "6", "7", "8", "9">>
IsDigit(ch) == \E i \in 1 .. 10 : DigitChars[i] = ch
DigitValue(ch) == (CHOOSE i \in 1 .. 10 : DigitChars[i] = ch) - 1

RECURSIVE Number(_)
Number(chars) ==
    IF chars = <<>> THEN 0
    ELSE 10 * Number(SubSeq(chars, 1, Len(chars) - 1)) + DigitValue(chars[Len(chars)])

MonthNames ==
    << <<"J", "a", "n">>, <<"F", "e", "b">>, <<"M", "a", "r">>, <<"A", "p", "r">>,
       <<"M", "a", "y">>, <<"J", "u", "n">>, <<"J", "u", "l">>, <<"A", "u", "g">>,
       <<"S", "e", "p">>, <<"O", "c", "t">>, <<"N", "o", "v">>, <<"D", "e", "c">> >>
MonthNumber(name) ==
    IF \E k \in 1 .. 12 : MonthNames[k] = name
    THEN CHOOSE k \in 1 .. 12 : MonthNames[k] = name
    ELSE 0
UpperCase == {"A", "B", "C", "D", "E", "F", "G", "H", "I", "J", "K", "L", "M",
              "N", "O", "P", "Q", "R", "S", "T", "U", "V", "W", "X", "Y", "Z"}
LowerCase == {"a", "b", "c", "d", "e", "f", "g", "h", "i", "j", "k", "l", "m",
              "n", "o", "p", "q", "r", "s", "t", "u", "v", "w", "x", "y", "z"}

\* The timestamp field of a response, as characters.
TimestampOf(c) ==
    (CHOOSE v \in Field(conns[c].resp.body, "timestamp") : TRUE).s

\* DD-Mon-YYYY hh:mm:ss AM/PM IST: 27 characters, the punctuation in place.
Shaped(ts) ==
    /\ Len(ts) = 27
    /\ ts[3] = "-" /\ ts[7] = "-" /\ ts[12] = " "
    /\ ts[15] = ":" /\ ts[18] = ":" /\ ts[21] = " " /\ ts[24] = " "
    /\ \A i \in {1, 2, 8, 9, 10, 11, 13, 14, 16, 17, 19, 20} : IsDigit(ts[i])
    /\ ts[4] \in UpperCase /\ ts[5] \in LowerCase /\ ts[6] \in LowerCase
    /\ SubSeq(ts, 22, 23) \in {<<"A", "M">>, <<"P", "M">>}
    /\ SubSeq(ts, 25, 27) = <<"I", "S", "T">>

\* The date and time a shaped timestamp says, on a 24-hour clock.
Reading(ts) ==
    LET hour12 == Number(SubSeq(ts, 13, 14))
        pm == SubSeq(ts, 22, 23) = <<"P", "M">>
    IN  [year |-> Number(SubSeq(ts, 8, 11)),
         month |-> MonthNumber(SubSeq(ts, 4, 6)),
         day |-> Number(SubSeq(ts, 1, 2)),
         hour |-> (hour12 % 12) + (IF pm THEN 12 ELSE 0),
         minute |-> Number(SubSeq(ts, 16, 17)),
         second |-> Number(SubSeq(ts, 19, 20))]

\* "05-Jan-2024 03:45:30 PM IST"
ScenarioTimestamp ==
    <<"0", "5", "-", "J", "a", "n", "-", "2", "0", "2", "4", " ",
      "0", "3", ":", "4", "5", ":", "3", "0", " ", "P", "M", " ", "I", "S", "T">>

(***************************************************************************)
(* C5: the timestamp of a response is the UTC date and time of the instant *)
(* the clock was read at, moved on by exactly 5 hours 30 minutes, with the *)
(* carry into the next day, month and year from 18:30:00 UTC on; the       *)
(* instant 2024-01-05T10:15:30Z gives "05-Jan-2024 03:45:30 PM IST".       *)
(***************************************************************************)
C5_TimestampIsUtcPlusFiveThirty ==
    \A c \in Conns :
        GetAnswered(c)
        => /\ Shaped(TimestampOf(c))
           /\ Reading(TimestampOf(c)) = PlusFiveThirty(conns[c].t)
           /\ conns[c].t = Instant(19727, 36930)
                => TimestampOf(c) = ScenarioTimestamp

\* 2023-12-31T18:30:00Z is answered as the first second of 2024.
C5_Witness ==
    \E c \in Conns :
        /\ GetAnswered(c)
        /\ conns[c].t = Instant(19722, 66600)
        /\ Reading(TimestampOf(c)) =
             [year |-> 2024, month |-> 1, day |-> 1,
              hour |-> 0, minute |-> 0, second |-> 0]

(***************************************************************************)
(* C6: every timestamp has the shape DD-Mon-YYYY hh:mm:ss AM/PM IST: two   *)
(* digits of day, a three-letter month name, four digits of year, an hour  *)
(* in 01..12 (the hours 0 and 12 of the day both read 12), two digits of   *)
(* minute and of second, AM for the hours 0..11 of the day and PM for      *)
(* 12..23, and the suffix IST.                                             *)
(***************************************************************************)
C6_TimestampShape ==
    \A c \in Conns :
        GetAnswered(c)
        => LET ts == TimestampOf(c)
               hour == conns[c].now_ist.hour
           IN  /\ Shaped(ts)
               /\ \E k \in 1 .. 12 : MonthNames[k] = SubSeq(ts, 4, 6)
               /\ Number(SubSeq(ts, 13, 14)) \in 1 .. 12
               /\ Number(SubSeq(ts, 1, 2)) \in 1 .. 31
               /\ Number(SubSeq(ts, 16, 17)) \in 0 .. 59
               /\ Number(SubSeq(ts, 19, 20)) \in 0 .. 59
               /\ hour \in {0, 12} => SubSeq(ts, 13, 14) = <<"1", "2">>
               /\ hour \in 0 .. 11 => SubSeq(ts, 22, 23) = <<"A", "M">>
               /\ hour \in 12 .. 23 => SubSeq(ts, 22, 23) = <<"P", "M">>

\* Midnight in Kolkata reads 12:00:00 AM.
C6_Witness ==
    \E c \in Conns :
        /\ GetAnswered(c)
        /\ conns[c].now_ist.hour = 0
        /\ SubSeq(TimestampOf(c), 13, 23)
             = <<"1", "2", ":", "0", "0", ":", "0", "0", " ", "A", "M">>

(***************************************************************************)
(* C7: two requests answered at instants a second or more apart get        *)
(* different timestamps: no two instants print the same string.            *)
(***************************************************************************)
C7_DistinctInstantsDistinctTimestamps ==
    \A c \in Conns :
        (GetAnswered(c) /\ lastStamp.t # NoInstant /\ lastStamp.t # conns[c].t)
        => TimestampOf(c) # lastStamp.timestamp

\* 03:45:30 and 15:45:30 of 5 January 2024 in Kolkata, one after the other:
\* the two timestamps are the same up to the AM/PM marker.
C7_Witness ==
    \E c \in Conns :
        /\ GetAnswered(c)
        /\ lastStamp.t = Instant(19726, 80130)
        /\ conns[c].t = Instant(19727, 36930)
        /\ SubSeq(TimestampOf(c), 1, 21) = SubSeq(lastStamp.timestamp, 1, 21)
        /\ TimestampOf(c) # lastStamp.timestamp

(***************************************************************************)
(* C9: requests are independent: however the requests of the connections   *)
(* interleave, each response is made of the request's own X-Forwarded-For  *)
(* header or, without one, its own peer address, and of the clock reading  *)
(* of its own request; it never carries a value of another request.        *)
(***************************************************************************)
OwnIp(req) ==
    IF HasXff(req) THEN JsonString(XffOf(req))
    ELSE IF req.remote_addr.type = "str" THEN PeerJson(req)
    ELSE JsonNull

C9_RequestsIndependent ==
    \A c \in Conns :
        GetAnswered(c)
        => /\ Field(conns[c].resp.body, "ip") = {OwnIp(conns[c].req)}
           /\ Shaped(TimestampOf(c))
           /\ Reading(TimestampOf(c)) = PlusFiveThirty(conns[c].t)
           /\ Keys(conns[c].resp.body) = {"timestamp", "ip"}

\* Two requests in flight at once, different in header, peer and instant.
C9_Witness ==
    \E c, d \in Conns :
        /\ GetAnswered(c) /\ GetAnswered(d)
        /\ HasXff(conns[c].req) /\ ~HasXff(conns[d].req)
        /\ conns[c].req.remote_addr # conns[d].req.remote_addr
        /\ conns[c].t # conns[d].t

====
